---- MODULE Spec2Model ----
(***************************************************************************)
(* A model of the Obsidian audio recorder plugin.                          *)
(*                                                                         *)
(* The repository holds two builds of the plugin: the one with the         *)
(* recording dialog (src/unnamed/part_000) and the earlier one without it  *)
(* (src/main.ts).  The variable build says which one runs; everything the  *)
(* two share is modelled once.                                             *)
(*                                                                         *)
(* Every handler is cut at its awaits: one action per stretch of code that *)
(* runs without suspension.  A promise continuation runs as a microtask,   *)
(* so the code after an await belongs to the action that settles the       *)
(* awaited host operation.                                                 *)
(***************************************************************************)
EXTENDS Integers, Sequences, FiniteSets, Bags, TLC

\* ------------------------------------------------------------------ bounds

\* Handlers that may be suspended at an await at the same time.
MaxTasks == 2
\* Device streams (and the MediaRecorder made on each) ever opened.
MaxSessions == 2
\* Files ever created in the vault.
MaxFiles == 2
\* Letters in a name the user types into a dialog.
MaxInput == 1
\* Largest value Date.now() returns.
MaxTime == 1
\* Longest name (in tokens) a dialog is allowed to produce.
MaxNameLen == 3

\* ----------------------------------------------------------------- strings
\* A string is a sequence of tokens: a letter, a blank, or one of the fixed
\* pieces the code concatenates (".mp3", "Audio/", "Recording-<n>").

Blank == " "
Letters == {"a"}
Ext == <<".mp3">>
AudioDir == "Audio/"

RECURSIVE TrimStart(_)
TrimStart(s) ==
    IF s # <<>> /\ Head(s) = Blank THEN TrimStart(Tail(s)) ELSE s

RECURSIVE TrimEnd(_)
TrimEnd(s) ==
    IF s # <<>> /\ s[Len(s)] = Blank THEN TrimEnd(SubSeq(s, 1, Len(s) - 1)) ELSE s

NoTrim(s) == s

\* String.prototype.trim
Trim(s) == TrimEnd(TrimStart(s))

\* `${x}.mp3`, x + ".mp3"
WithExt(s) == s \o Ext

EndsWithExt(s) == Len(s) >= 1 /\ s[Len(s)] = Ext[1]

\* `Audio/${name}`
PathOf(name) == <<AudioDir>> \o name

\* TFile.name of a path: what follows the folder.
Basename(path) == IF path # <<>> /\ Head(path) = AudioDir THEN Tail(path) ELSE path

\* `Recording-${Date.now()}`
StampTokens == <<"Recording-0", "Recording-1", "Recording-2", "Recording-3">>
Stamp(t) == <<StampTokens[t + 1]>>

RECURSIVE SeqsUpTo(_, _)
SeqsUpTo(S, n) ==
    IF n = 0 THEN {<<>>}
    ELSE LET shorter == SeqsUpTo(S, n - 1)
         IN  shorter \cup {Append(s, x) : s \in shorter, x \in S}

\* What a user may have typed into a dialog's input field when submitting: a
\* name of letters (or nothing), with or without a stray blank around it.
Padded(core) == {core, <<Blank>> \o core, core \o <<Blank>>, <<Blank>> \o core \o <<Blank>>}
Typed == UNION {Padded(core) : core \in SeqsUpTo(Letters, MaxInput)}

\* ------------------------------------------------------------------- state

Builds == {"part_000", "main_ts"}

VARIABLES
    build,          \* which of the two source files is the running plugin
    supported,      \* the types MediaRecorder.isTypeSupported accepts
    now,            \* the last value Date.now() returned
    isRecording,    \* MyPlugin.isRecording
    recOpen,        \* the RecordingModal is open
    mediaRecorder,  \* AudioRecorder.mediaRecorder: 0 (null) or a session
    stream,         \* AudioRecorder.stream: 0 (null) or a session
    audioChunks,    \* AudioRecorder.audioChunks
    sessions,       \* every device stream opened, with the MediaRecorder on it
    startCalls,     \* startRecording calls since the last stopRecording call
    tasks,          \* the handlers suspended at an await on the host (a bag)
    folder,         \* the vault has the folder Audio
    files,          \* every TFile object the vault ever handed out
    playbackOpen,   \* the AudioPlaybackModal is open
    rendered,       \* the rows in the AudioPlaybackModal's contentEl
    renameModal,    \* the RenameModal on top, if any
    animationId,    \* RecordingModal.animationId: 0 (null) or the draw loop whose
                    \* frame was requested last
    frames,         \* the draw loops that have a frame scheduled on the host
    last            \* what the last step did, as the user observes it

recVars == <<isRecording, recOpen, mediaRecorder, stream, audioChunks, sessions, startCalls>>
vaultVars == <<folder, files>>
dialogVars == <<playbackOpen, rendered, renameModal>>
vizVars == <<animationId, frames>>
vars == <<build, supported, now, recVars, tasks, vaultVars, dialogVars, vizVars, last>>

EmptyBlob == [data |-> <<>>, type |-> ""]
Mp3Blob(chunks) == [data |-> chunks, type |-> "audio/mp3"]
BlobSize(b) == Len(b.data)

\* A suspended handler: which handler, the await it is at, and its locals.
Task(kind, pc, blob, name, file) ==
    [kind |-> kind, pc |-> pc, blob |-> blob, name |-> name, file |-> file]

\* The closure in MediaRecorder.onstop: none, one whose promise a handler
\* awaits, or one whose promise is settled already ("dead").  active: the
\* stopRecording call that installed it found a capture session to stop.
NoHandler == [kind |-> "none", name |-> <<>>, active |-> FALSE]
DeadHandler == [kind |-> "dead", name |-> <<>>, active |-> FALSE]
Handler(kind, name, active) == [kind |-> kind, name |-> name, active |-> active]
Awaited(h) == h.kind \notin {"none", "dead"}

\* last: the handler that ran (op), how its step ended (out), the Notice it
\* showed, the name it worked on, and whether it opened the playback dialog.
Event(op, out, notice, name, opens) ==
    [op |-> op, out |-> out, notice |-> notice, name |-> name, opens |-> opens]
\* A step that settles nothing a claim speaks of.
Quiet == Event("step", "none", "none", <<>>, FALSE)

\* ---------------------------------------------------------------- recorder

MimeTypes == <<"audio/mp3", "audio/mpeg", "audio/webm;codecs=opus", "audio/webm">>
OtherTypes == {"audio/ogg", "audio/wav"}

RECURSIVE LastSupportedFrom(_, _, _)
LastSupportedFrom(supp, i, sel) ==
    IF i > Len(MimeTypes) THEN sel
    ELSE LastSupportedFrom(supp, i + 1, IF MimeTypes[i] \in supp THEN MimeTypes[i] ELSE sel)

RECURSIVE FirstSupportedFrom(_, _)
FirstSupportedFrom(supp, i) ==
    IF i > Len(MimeTypes) THEN ""
    ELSE IF MimeTypes[i] \in supp THEN MimeTypes[i]
    ELSE FirstSupportedFrom(supp, i + 1)

\* The loop without its break.
SelectTypeNoBreak(supp) == LastSupportedFrom(supp, 1, "")

\* let selectedType = ''; for (const type of mimeTypes) ... break
SelectType(supp) == FirstSupportedFrom(supp, 1)

Session(mime) ==
    [live |-> TRUE, state |-> "recording", stopping |-> FALSE, onstop |-> NoHandler,
     mime |-> mime]

SessionIds == 1..Len(sessions)
\* A capture session: a recording MediaRecorder on a stream whose tracks are live.
ActiveSessions == {r \in SessionIds : sessions[r].state = "recording" /\ sessions[r].live}
LiveStreams == {r \in SessionIds : sessions[r].live}

\* Handlers suspended anywhere: at the host, or on a stopRecording promise.
InFlight == BagCardinality(tasks) + Cardinality({r \in SessionIds : Awaited(sessions[r].onstop)})
CanSuspend == InFlight < MaxTasks

\* try { ... } catch (error) { new Notice(...); return null } around the start
CatchesStartFailure(b) == b = "part_000"

\* stopRecording with this.mediaRecorder null: resolve(new Blob([])) or a bare return
ResolvesWhenNoRecorder(b) == b = "part_000"

\* MediaRecorder.stop() on an inactive recorder: older engines throw
\* InvalidStateError, current ones return without an event.
StopInactiveOutcomes == {"noop", "throw"}

\* -------------------------------------------------------------------- vault

TFile(path, data) == [path |-> path, name |-> Basename(path), data |-> data, present |-> TRUE]
\* A note of the user's, outside the recordings folder.
NoteFile == TFile(<<"note.md">>, <<>>)
FileIds == 1..Len(files)
InAudio(f) == f.path # <<>> /\ Head(f.path) = AudioDir
\* this.app.vault.getFiles()
GetFiles(fs) == {i \in 1..Len(fs) : fs[i].present}
\* this.app.vault.getFiles().filter(file => file.path.startsWith("Audio/"))
Listing(fs) == {i \in GetFiles(fs) : InAudio(fs[i])}
\* adapter.exists(path)
Exists(fs, path) == \E i \in GetFiles(fs) : fs[i].path = path

\* The rows onOpen builds, one per listed file: rendered holds the file each
\* row's buttons close over (the label is display only, nothing reads it).
Render(fs) == Listing(fs)

\* A handler that opened the dialogs without waiting for the save.
ForgetsAwait == FALSE
\* `await this.saveAudio(...)` before the dialogs are switched
AwaitsSave == TRUE

\* ----------------------------------------------------------- visualisation

\* RecordingModal.stopVisualizing: cancelAnimationFrame(this.animationId)
\* cancels the one frame the field names, then the field is nulled.
StopVisualizing ==
    /\ frames' = frames \ {animationId}
    /\ animationId' = 0

\* RecordingModal.setupAnalyser(stream) on the open dialog (canvasEl is set by
\* onOpen, analyser by setupAnalyser itself, so startVisualizing goes on):
\* draw() runs once and requests the first frame of a new loop.
SetupAnalyser(loop) ==
    /\ frames' = frames \cup {loop}
    /\ animationId' = loop

\* stopVisualizing is reached in this step (by stopBtn.onclick or by
\* recordingModal.close(), whose onClose calls it), or it is not.
Viz(stops) == IF stops THEN StopVisualizing ELSE UNCHANGED vizVars

\* The host runs the frame a loop has scheduled: draw requests the next frame
\* first and stores its id, then paints.
FrameFires(loop) ==
    /\ loop \in frames
    /\ animationId' = loop
    /\ UNCHANGED <<build, supported, now, recVars, tasks, vaultVars, dialogVars, frames, last>>

\* ------------------------------------------------------------ plugin shell

Suspend(tk, task) == tk (+) SetToBag({task})
Resume(tk, task) == tk (-) SetToBag({task})
Suspended == BagToSet(tasks)

\* What follows `await this.saveAudio(...)` in the handler of that kind:
\* part_000 lines 28-30 (stop callback) and 46-47 (toggle-off), main.ts 24-26.
DialogsAfterSave(kind, isRec, fs) ==
    /\ isRecording' = IF kind = "stopCb" THEN FALSE ELSE isRec
    /\ recOpen' = FALSE
    /\ playbackOpen' = TRUE
    /\ rendered' = Render(fs)

\* The handler's code after `await stopRecording()` resolved with blob, up to
\* the first await of saveAudio (adapter.exists).  isRec is the flag as the
\* caller leaves it.
ContinueAfterStop(kind, blob, name, isRec, out, notice) ==
    \E tm \in now..MaxTime :
        LET stamped == build = "part_000" /\ kind = "toggleOff"
            nm == IF stamped THEN WithExt(Stamp(tm)) ELSE name
        IN  /\ stamped \/ tm = now
            /\ now' = tm
            /\ tasks' = Suspend(tasks, Task(kind, "saveExists", blob, nm, 0))
            /\ IF AwaitsSave
               THEN /\ isRecording' = isRec
                    /\ UNCHANGED <<recOpen, playbackOpen, rendered>>
                    /\ last' = Event(kind, out, notice, nm, FALSE)
               ELSE /\ DialogsAfterSave(kind, isRec, files)
                    /\ last' = Event(kind, out, notice, nm, TRUE)

\* AudioRecorder.stopRecording as called by a handler of that kind, with the
\* handler's continuation when the promise settles at once.
StopRecordingCall(kind, name, isRec) ==
    /\ UNCHANGED <<mediaRecorder, stream, audioChunks>>
    /\ Viz(kind = "stopCb" \/ (~AwaitsSave /\ mediaRecorder = 0 /\ ResolvesWhenNoRecorder(build)))
    /\ startCalls' = 0
    /\ IF mediaRecorder = 0
       THEN /\ UNCHANGED sessions
            /\ IF ResolvesWhenNoRecorder(build)
               THEN ContinueAfterStop(kind, EmptyBlob, name, isRec, "resolved", "none")
               ELSE /\ isRecording' = isRec
                    /\ last' = Event(kind, "pending", "none", name, FALSE)
                    /\ UNCHANGED <<now, tasks, recOpen, playbackOpen, rendered>>
       ELSE LET r == mediaRecorder IN
            /\ isRecording' = isRec
            /\ UNCHANGED <<now, tasks, recOpen, playbackOpen, rendered>>
            /\ IF sessions[r].state = "recording"
               THEN /\ sessions' = [sessions EXCEPT ![r].state = "inactive",
                                                    ![r].stopping = TRUE,
                                                    ![r].onstop = Handler(kind, name, sessions[r].live)]
                    /\ last' = Event(kind, "stopping", "stopped", name, FALSE)
               ELSE \E o \in StopInactiveOutcomes :
                    \* onstop is overwritten: an earlier caller's promise is lost
                    IF sessions[r].stopping
                    THEN IF o = "noop"
                         THEN /\ sessions' = [sessions EXCEPT ![r].onstop = Handler(kind, name, FALSE)]
                              /\ last' = Event(kind, "stopping", "stopped", name, FALSE)
                         ELSE /\ sessions' = [sessions EXCEPT ![r].onstop = DeadHandler]
                              /\ last' = Event(kind, "rejected", "none", name, FALSE)
                    ELSE /\ UNCHANGED sessions
                         /\ last' = IF o = "noop"
                                    THEN Event(kind, "pending", "stopped", name, FALSE)
                                    ELSE Event(kind, "rejected", "none", name, FALSE)

\* The ribbon icon's callback up to its first await.
RibbonClick ==
    /\ CanSuspend
    /\ IF ~isRecording
       THEN /\ isRecording' = TRUE
            /\ startCalls' = IF startCalls < 2 THEN startCalls + 1 ELSE 2
            /\ tasks' = Suspend(tasks, Task("toggleOn", "getUserMedia", EmptyBlob, <<>>, 0))
            /\ last' = Quiet
            /\ UNCHANGED <<now, recOpen, mediaRecorder, stream, audioChunks, sessions,
                           playbackOpen, rendered, vizVars>>
       ELSE StopRecordingCall("toggleOff", <<>>, FALSE)
    /\ UNCHANGED <<build, supported, vaultVars, renameModal>>

\* getUserMedia resolves: the rest of startRecording and of the ribbon callback.
GetUserMediaGranted(task) ==
    /\ task \in Suspended
    /\ task.pc = "getUserMedia"
    /\ Len(sessions) < MaxSessions
    /\ sessions' = Append(sessions, Session(SelectType(supported)))
    /\ stream' = Len(sessions) + 1
    /\ mediaRecorder' = Len(sessions) + 1
    /\ audioChunks' = <<>>
    /\ tasks' = Resume(tasks, task)
    /\ recOpen' = IF build = "part_000" THEN TRUE ELSE recOpen
    /\ IF build = "part_000" THEN SetupAnalyser(Len(sessions) + 1) ELSE UNCHANGED vizVars
    /\ last' = Quiet
    /\ UNCHANGED <<build, supported, now, isRecording, startCalls, vaultVars, dialogVars>>

\* getUserMedia rejects.
GetUserMediaDenied(task) ==
    /\ task \in Suspended
    /\ task.pc = "getUserMedia"
    /\ tasks' = Resume(tasks, task)
    /\ IF CatchesStartFailure(build)
       THEN /\ recOpen' = IF build = "part_000" THEN TRUE ELSE recOpen
            /\ last' = Event("toggleOn", "denied", "failed", <<>>, FALSE)
       ELSE /\ UNCHANGED recOpen
            /\ last' = Event("toggleOn", "unhandled", "none", <<>>, FALSE)
    /\ UNCHANGED <<build, supported, now, isRecording, mediaRecorder, stream, audioChunks,
                   sessions, startCalls, vaultVars, dialogVars, vizVars>>

\* The recorder r delivers its data and fires stop: ondataavailable, then
\* the onstop closure stopRecording installed, then the awaiting handler.
MediaRecorderStopEvent(r) ==
    /\ r \in SessionIds
    /\ sessions[r].stopping
    /\ LET chunks == Append(audioChunks, r)
           h == sessions[r].onstop
           done == [sessions EXCEPT ![r].stopping = FALSE, ![r].onstop = NoHandler]
       IN  IF h = NoHandler
           THEN /\ audioChunks' = chunks
                /\ sessions' = done
                /\ last' = Quiet
                /\ UNCHANGED <<now, isRecording, recOpen, stream, tasks, playbackOpen, rendered>>
           ELSE /\ audioChunks' = <<>>
                /\ sessions' = IF stream # 0 THEN [done EXCEPT ![stream].live = FALSE] ELSE done
                /\ stream' = 0
                /\ IF Awaited(h)
                   THEN ContinueAfterStop(h.kind, Mp3Blob(chunks), h.name, isRecording,
                                          "finished", "none")
                   ELSE /\ last' = Quiet
                        /\ UNCHANGED <<now, isRecording, recOpen, tasks, playbackOpen, rendered>>
    /\ Viz(~AwaitsSave /\ Awaited(sessions[r].onstop))
    /\ UNCHANGED <<build, supported, mediaRecorder, startCalls, vaultVars, renameModal>>

\* All tracks of a recording MediaRecorder's stream have ended: the user
\* agent stops the recorder by itself.
TracksEnded(r) ==
    /\ r \in SessionIds
    /\ sessions[r].state = "recording"
    /\ ~sessions[r].live
    /\ sessions' = [sessions EXCEPT ![r].state = "inactive", ![r].stopping = TRUE]
    /\ last' = Quiet
    /\ UNCHANGED <<build, supported, now, isRecording, recOpen, mediaRecorder, stream,
                   audioChunks, startCalls, tasks, vaultVars, dialogVars, vizVars>>

\* The strings a user may submit in the recording dialog: typed ones, or the
\* default `Recording-${Date.now()}` the dialog was opened with.
RecordingInputs == Typed \cup {Stamp(tm) : tm \in 0..now}

\* RecordingModal: stopBtn.onclick, and the stop callback up to its first await.
StopAndSaveClick(input) ==
    /\ recOpen
    /\ IF Trim(input) = <<>>
       THEN /\ last' = Event("stopCb", "ignored", "none", input, FALSE)
            /\ UNCHANGED <<now, recVars, tasks, playbackOpen, rendered, vizVars>>
       ELSE /\ CanSuspend
            /\ StopRecordingCall("stopCb", WithExt(Trim(input)), isRecording)
    /\ UNCHANGED <<build, supported, vaultVars, renameModal>>

\* The user dismisses the recording dialog (Escape, click outside).
DismissRecordingModal ==
    /\ recOpen
    /\ recOpen' = FALSE
    /\ StopVisualizing
    /\ last' = Quiet
    /\ UNCHANGED <<build, supported, now, isRecording, mediaRecorder, stream, audioChunks,
                   sessions, startCalls, tasks, vaultVars, dialogVars>>

\* ------------------------------------------------------------ save routine

\* A write that lost the last byte of the buffer.
BytesTruncated(blob) == IF blob.data = <<>> THEN <<>> ELSE SubSeq(blob.data, 1, Len(blob.data) - 1)
\* new Uint8Array(await blob.arrayBuffer())
Bytes(blob) == blob.data

\* main.ts line 50: the name is made inside saveAudio, after the folder check.
NameInSave(task, tm) == IF build = "main_ts" THEN WithExt(Stamp(tm)) ELSE task.name

\* adapter.exists("Audio") resolves.  With the folder there, saveAudio goes on
\* to blob.arrayBuffer() and createBinary; the await between the two touches
\* nothing shared, so the write is in flight from here.
SaveExistsDone(task) ==
    /\ task \in Suspended
    /\ task.pc = "saveExists"
    /\ IF folder
       THEN \E tm \in now..MaxTime :
                /\ build = "main_ts" \/ tm = now
                /\ now' = tm
                /\ tasks' = Suspend(Resume(tasks, task),
                                    [task EXCEPT !.pc = "saveWrite", !.name = NameInSave(task, tm)])
       ELSE /\ tasks' = Suspend(Resume(tasks, task), [task EXCEPT !.pc = "saveMkdir"])
            /\ UNCHANGED now
    /\ last' = Quiet
    /\ UNCHANGED vizVars
    /\ UNCHANGED <<build, supported, recVars, vaultVars, dialogVars>>

\* vault.createFolder("Audio") settles: it rejects when the folder is there.
SaveMkdirDone(task) ==
    /\ task \in Suspended
    /\ task.pc = "saveMkdir"
    /\ IF folder
       THEN /\ tasks' = Resume(tasks, task)
            /\ last' = Event("save", "unhandled", "none", task.name, FALSE)
            /\ UNCHANGED <<now, folder>>
       ELSE \E tm \in now..MaxTime :
                /\ build = "main_ts" \/ tm = now
                /\ now' = tm
                /\ folder' = TRUE
                /\ tasks' = Suspend(Resume(tasks, task),
                                    [task EXCEPT !.pc = "saveWrite", !.name = NameInSave(task, tm)])
                /\ last' = Quiet
    /\ UNCHANGED vizVars
    /\ UNCHANGED <<build, supported, recVars, files, dialogVars>>

\* vault.createBinary settles: it rejects when the path is taken.  On
\* success saveAudio returns and the handler that awaited it goes on.
SaveWriteDone(task) ==
    /\ task \in Suspended
    /\ task.pc = "saveWrite"
    /\ tasks' = Resume(tasks, task)
    /\ IF Exists(files, PathOf(task.name))
       THEN /\ last' = Event("save", "unhandled", "none", task.name, FALSE)
            /\ UNCHANGED <<files, isRecording, recOpen, playbackOpen, rendered>>
       ELSE /\ Len(files) <= MaxFiles
            /\ files' = Append(files, TFile(PathOf(task.name), Bytes(task.blob)))
            /\ IF AwaitsSave
               THEN /\ DialogsAfterSave(task.kind, isRecording, files')
                    /\ last' = Event("save", "saved", "saved", task.name, TRUE)
               ELSE /\ UNCHANGED <<isRecording, recOpen, playbackOpen, rendered>>
                    /\ last' = Event("save", "saved", "saved", task.name, FALSE)
    /\ Viz(AwaitsSave /\ ~Exists(files, PathOf(task.name)))
    /\ UNCHANGED <<build, supported, now, mediaRecorder, stream, audioChunks, sessions,
                   startCalls, folder, renameModal>>

\* --------------------------------------------------------- playback dialog

NoRename == [open |-> FALSE, file |-> 0, value |-> <<>>]

\* The command "Open Audio Recordings": playbackModal.open(), onOpen.
OpenPlayback ==
    /\ playbackOpen' = TRUE
    /\ rendered' = Render(files)
    /\ last' = Quiet
    /\ UNCHANGED vizVars
    /\ UNCHANGED <<build, supported, now, recVars, tasks, vaultVars, renameModal>>

\* The user dismisses the playback dialog: onClose empties it.
ClosePlayback ==
    /\ playbackOpen
    /\ playbackOpen' = FALSE
    /\ rendered' = {}
    /\ last' = Quiet
    /\ UNCHANGED vizVars
    /\ UNCHANGED <<build, supported, now, recVars, tasks, vaultVars, renameModal>>

\* deleteBtn.onclick up to `await this.app.vault.trash(file, true)`.
DeleteClick(row) ==
    /\ playbackOpen
    /\ row \in rendered
    /\ CanSuspend
    /\ tasks' = Suspend(tasks, Task("delete", "trash", EmptyBlob, <<>>, row))
    /\ last' = Quiet
    /\ UNCHANGED vizVars
    /\ UNCHANGED <<build, supported, now, recVars, vaultVars, dialogVars>>

\* A dialog that kept its rows instead of calling onOpen again.
NotRefreshed(fs) == rendered
\* this.onOpen() after a mutation
Refreshed(fs) == Render(fs)

\* vault.trash settles: it rejects when the file is gone already.
TrashDone(task) ==
    /\ task \in Suspended
    /\ task.pc = "trash"
    /\ tasks' = Resume(tasks, task)
    /\ LET f == task.file IN
       IF files[f].present
       THEN /\ files' = [files EXCEPT ![f].present = FALSE]
            /\ rendered' = Refreshed(files')
            /\ last' = Event("delete", "deleted", "deleted", files[f].name, FALSE)
       ELSE /\ last' = Event("delete", "unhandled", "none", files[f].name, FALSE)
            /\ UNCHANGED <<files, rendered>>
    /\ UNCHANGED vizVars
    /\ UNCHANGED <<build, supported, now, recVars, folder, playbackOpen, renameModal>>

\* renameBtn.onclick: new RenameModal(...).open(), whose input starts as
\* file.name + ".mp3".
RenameClick(row) ==
    /\ playbackOpen
    /\ row \in rendered
    /\ ~renameModal.open
    /\ renameModal' = [open |-> TRUE, file |-> row,
                       value |-> WithExt(files[row].name)]
    /\ last' = Quiet
    /\ UNCHANGED vizVars
    /\ UNCHANGED <<build, supported, now, recVars, tasks, vaultVars, playbackOpen, rendered>>

\* RenameModal: cancelBtn.onclick.
RenameCancel ==
    /\ renameModal.open
    /\ renameModal' = NoRename
    /\ last' = Quiet
    /\ UNCHANGED vizVars
    /\ UNCHANGED <<build, supported, now, recVars, tasks, vaultVars, playbackOpen, rendered>>

\* The strings a user may submit in the rename dialog.
RenameInputs == Typed \cup {renameModal.value}

\* RenameModal: renameBtn.onclick, with the rename callback up to its first
\* await (adapter.exists), then `this.file.name = newName` and close().
RenameSubmit(input) ==
    /\ renameModal.open
    /\ LET f == renameModal.file
           newName == Trim(input)
           arg == WithExt(newName)
       IN  IF newName = <<>>
           THEN /\ last' = Event("rename", "ignored", "none", input, FALSE)
                /\ UNCHANGED <<tasks, files, renameModal>>
           ELSE /\ Len(arg) <= MaxNameLen
                /\ IF arg # files[f].name
                   THEN /\ CanSuspend
                        /\ tasks' = Suspend(tasks, Task("rename", "renExists", EmptyBlob, arg, f))
                        /\ last' = Event("rename", "checking", "none", arg, FALSE)
                   ELSE /\ last' = Event("rename", "same", "none", arg, FALSE)
                        /\ UNCHANGED tasks
                /\ files' = [files EXCEPT ![f].name = newName]
                /\ renameModal' = NoRename
    /\ UNCHANGED vizVars
    /\ UNCHANGED <<build, supported, now, recVars, folder, playbackOpen, rendered>>

\* adapter.exists(newPath) resolves: a taken path ends the rename.
RenameExistsDone(task) ==
    /\ task \in Suspended
    /\ task.pc = "renExists"
    /\ IF Exists(files, PathOf(task.name))
       THEN /\ tasks' = Resume(tasks, task)
            /\ last' = Event("rename", "collision", "collision", task.name, FALSE)
       ELSE /\ tasks' = Suspend(Resume(tasks, task), [task EXCEPT !.pc = "renMove"])
            /\ last' = Quiet
    /\ UNCHANGED vizVars
    /\ UNCHANGED <<build, supported, now, recVars, vaultVars, dialogVars>>

\* vault.rename settles: .then refreshes, .catch reports.
RenameMoveDone(task) ==
    /\ task \in Suspended
    /\ task.pc = "renMove"
    /\ tasks' = Resume(tasks, task)
    /\ LET f == task.file
           newPath == PathOf(task.name)
       IN  IF files[f].present /\ ~Exists(files, newPath)
           THEN /\ files' = [files EXCEPT ![f].path = newPath, ![f].name = Basename(newPath)]
                /\ rendered' = Refreshed(files')
                /\ last' = Event("rename", "renamed", "renamed", task.name, FALSE)
           ELSE /\ last' = Event("rename", "failed", "renameError", task.name, FALSE)
                /\ UNCHANGED <<files, rendered>>
    /\ UNCHANGED vizVars
    /\ UNCHANGED <<build, supported, now, recVars, folder, playbackOpen, renameModal>>

\* ----------------------------------------------------------- specification

\* What Electron's MediaRecorder accepts.
ChromiumTypes == {"audio/webm;codecs=opus", "audio/webm"}

InitWith(supp, fs) ==
    /\ build \in Builds
    /\ supported \in supp
    /\ now = 0
    /\ isRecording = FALSE
    /\ recOpen = FALSE
    /\ mediaRecorder = 0
    /\ stream = 0
    /\ audioChunks = <<>>
    /\ sessions = <<>>
    /\ startCalls = 0
    /\ tasks = EmptyBag
    /\ folder = (Len(fs) > 1)
    /\ files = fs
    /\ playbackOpen = FALSE
    /\ rendered = {}
    /\ renameModal = NoRename
    /\ animationId = 0
    /\ frames = {}
    /\ last = Event("onload", "loaded", "none", <<>>, FALSE)

Init == InitWith({ChromiumTypes}, <<NoteFile>>)

\* The recording side: the toggle, the recorder, the recording dialog, the
\* save routine, and the playback dialog opening on what was saved.
Next ==
    \/ RibbonClick
    \/ \E task \in Suspended : GetUserMediaGranted(task)
    \/ \E task \in Suspended : GetUserMediaDenied(task)
    \/ \E r \in 1..MaxSessions : MediaRecorderStopEvent(r)
    \/ \E r \in 1..MaxSessions : TracksEnded(r)
    \/ \E input \in RecordingInputs : StopAndSaveClick(input)
    \/ DismissRecordingModal
    \/ \E task \in Suspended : SaveExistsDone(task)
    \/ \E task \in Suspended : SaveMkdirDone(task)
    \/ \E task \in Suspended : SaveWriteDone(task)
    \/ OpenPlayback
    \/ ClosePlayback

Spec == Init /\ [][Next]_vars

\* Recordings an earlier run of the plugin left in the vault.
\* The recording dialog's visualisation in the build that has one: the
\* recording side with the host running the scheduled frames.  The playback
\* dialog opens only where a stop handler opens it.
NextVisual ==
    \/ RibbonClick
    \/ \E task \in Suspended : GetUserMediaGranted(task)
    \/ \E task \in Suspended : GetUserMediaDenied(task)
    \/ \E r \in 1..MaxSessions : MediaRecorderStopEvent(r)
    \/ \E r \in 1..MaxSessions : TracksEnded(r)
    \/ \E input \in RecordingInputs : StopAndSaveClick(input)
    \/ DismissRecordingModal
    \/ \E loop \in 1..MaxSessions : FrameFires(loop)
    \/ \E task \in Suspended : SaveExistsDone(task)
    \/ \E task \in Suspended : SaveMkdirDone(task)
    \/ \E task \in Suspended : SaveWriteDone(task)

InitVisual == Init /\ build = "part_000"

SpecVisual == InitVisual /\ [][NextVisual]_vars

SeedNames == <<WithExt(<<"a">>), WithExt(Stamp(0)), WithExt(<<"a", "a">>), WithExt(Stamp(1))>>
SeedFiles == [i \in 1..MaxFiles |-> TFile(PathOf(SeedNames[i]), <<i>>)]

InitBrowse == InitWith({ChromiumTypes}, <<NoteFile>> \o SeedFiles)

\* The browsing side: the playback dialog with its delete and rename actions.
NextBrowse ==
    \/ OpenPlayback
    \/ ClosePlayback
    \/ \E row \in rendered : DeleteClick(row)
    \/ \E task \in Suspended : TrashDone(task)
    \/ \E row \in rendered : RenameClick(row)
    \/ RenameCancel
    \/ \E input \in RenameInputs : RenameSubmit(input)
    \/ \E task \in Suspended : RenameExistsDone(task)
    \/ \E task \in Suspended : RenameMoveDone(task)

SpecBrowse == InitBrowse /\ [][NextBrowse]_vars

\* The type selection over every set of types an engine may support.
MimeTypeSet == {MimeTypes[i] : i \in 1..Len(MimeTypes)}
InitSelect == InitWith(SUBSET (MimeTypeSet \cup OtherTypes), <<NoteFile>>)

NextSelect ==
    \/ RibbonClick
    \/ \E task \in Suspended : GetUserMediaGranted(task)
    \/ \E task \in Suspended : GetUserMediaDenied(task)
    \/ \E r \in 1..MaxSessions : MediaRecorderStopEvent(r)

SpecSelect == InitSelect /\ [][NextSelect]_vars

\* The whole of part_000 under a user who lets every handler finish before
\* the next click or keystroke, and who reaches the ribbon only with no
\* dialog in the way (an open Modal covers the workspace).
NoDialog == ~recOpen /\ ~playbackOpen /\ ~renameModal.open

NextPatient ==
    \/ /\ InFlight = 0
       /\ \/ NoDialog /\ RibbonClick
          \/ \E input \in RecordingInputs : StopAndSaveClick(input)
          \/ DismissRecordingModal
          \/ NoDialog /\ OpenPlayback
          \/ ClosePlayback
          \/ \E row \in rendered : DeleteClick(row)
          \/ \E row \in rendered : RenameClick(row)
          \/ RenameCancel
          \/ \E input \in RenameInputs : RenameSubmit(input)
    \/ \E task \in Suspended : GetUserMediaGranted(task)
    \/ \E task \in Suspended : GetUserMediaDenied(task)
    \/ \E r \in 1..MaxSessions : MediaRecorderStopEvent(r)
    \/ \E loop \in 1..MaxSessions : FrameFires(loop)
    \/ \E task \in Suspended : SaveExistsDone(task)
    \/ \E task \in Suspended : SaveMkdirDone(task)
    \/ \E task \in Suspended : SaveWriteDone(task)
    \/ \E task \in Suspended : TrashDone(task)
    \/ \E task \in Suspended : RenameExistsDone(task)
    \/ \E task \in Suspended : RenameMoveDone(task)

InitPatient == Init /\ build = "part_000"

SpecPatient == InitPatient /\ [][NextPatient]_vars

\* ------------------------------------------------------------------ claims

StopKinds == {"toggleOff", "stopCb"}

\* C1: however the ribbon clicks interleave, at most one capture session (a
\* recording MediaRecorder on a live device stream) is active at any time.
C1_AtMostOneSession == Cardinality(ActiveSessions) <= 1

\* C2: two startRecording calls with no stopRecording call between them never
\* leave more than one device stream with live tracks.
C2_StartTwiceKeepsOneStream == startCalls >= 2 => Cardinality(LiveStreams) <= 1

\* The recorder holds no session a stop could finish: never started, or the
\* MediaRecorder it holds is inactive with no stop event to come.
IdleRecorder ==
    /\ ActiveSessions = {}
    /\ \/ mediaRecorder = 0
       \/ /\ sessions[mediaRecorder].state = "inactive"
          /\ ~sessions[mediaRecorder].stopping

\* The handler that just called stopRecording got an empty object back and
\* went on to save it.
ResolvedEmpty ==
    /\ last.out = "resolved"
    /\ \E task \in Suspended :
          /\ task.kind = last.op
          /\ task.name = last.name
          /\ task.pc = "saveExists"
          /\ BlobSize(task.blob) = 0

\* C3: a stopRecording call made with no capture session active resolves with
\* a zero-length object: it neither rejects nor stays pending.
C3_IdleStopResolvesEmpty ==
    (last.op \in StopKinds /\ last.out \in {"resolved", "pending", "rejected"} /\ IdleRecorder)
        => ResolvedEmpty

\* C4: a denied device request is caught inside startRecording and reported by
\* a notice; nothing is thrown to the ribbon callback.
C4_DenialIsCaught ==
    (last.op = "toggleOn" /\ last.out \in {"denied", "unhandled"})
        => (last.out = "denied" /\ last.notice = "failed")

\* Every file object in the vault is named after its path.
NamesMatchPaths == \A i \in GetFiles(files) : files[i].name = Basename(files[i].path)

\* C5: a rename that ends in a collision leaves every file object in the
\* vault with the name it had (the name of its path) and shows the collision.
C5_CollisionKeepsNames ==
    (last.op = "rename" /\ last.out = "collision")
        => (last.notice = "collision" /\ NamesMatchPaths)

\* C6: a handler that stopped a recording opens the playback dialog only in
\* the step in which its save has finished: the file it wrote is in the vault.
C6_PlaybackOpensAfterSave ==
    last.opens => /\ last.op = "save"
                  /\ last.out = "saved"
                  /\ Exists(files, PathOf(last.name))
                  /\ playbackOpen

C6_Witness == last.opens /\ last.op = "save" /\ Len(files) = MaxFiles + 1

\* The entries of the Audio listing with that name.
Named(fs, name) == {i \in Listing(fs) : fs[i].name = name}

\* C7: when saveAudio(blob, name) completes, the Audio listing has exactly one
\* entry named name, as long as the blob, and the folder exists.
C7_SavedFileListedOnce ==
    [][\A task \in Suspended :
          (task.pc = "saveWrite" /\ tasks' = Resume(tasks, task) /\ last'.out = "saved")
              => /\ folder'
                 /\ Cardinality(Named(files', task.name)) = 1
                 /\ \A i \in Named(files', task.name) :
                        Len(files'[i].data) = BlobSize(task.blob)]_vars

\* A second recording, with data, saved beside the first.
C7_Witness ==
    /\ last.op = "save"
    /\ last.out = "saved"
    /\ Cardinality(Listing(files)) = 2
    /\ \E i \in Named(files, last.name) : Len(files[i].data) > 0

\* C8: once a delete from the playback dialog has completed, the file is in no
\* listing of the folder, and the dialog's list, rebuilt from the listing,
\* shows no deleted file.
C8_DeletedFileGone ==
    /\ \A row \in rendered : row \in Listing(files)
    /\ (last.op = "delete" /\ last.out = "deleted") => rendered = Listing(files)

C8_Witness ==
    /\ last.op = "delete"
    /\ last.out = "deleted"
    /\ playbackOpen
    /\ rendered # {}
    /\ \E i \in FileIds : ~files[i].present

\* m is the first type of the preference list that is supported, or the empty
\* type when none is.
FirstPreferred(m, supp) ==
    IF MimeTypeSet \cap supp = {}
    THEN m = ""
    ELSE \E i \in 1..Len(MimeTypes) :
            /\ MimeTypes[i] = m
            /\ m \in supp
            /\ \A j \in 1..(i - 1) : MimeTypes[j] \notin supp

\* C9: every MediaRecorder is created with the first supported type in the
\* order audio/mp3, audio/mpeg, audio/webm;codecs=opus, audio/webm, and with
\* the empty type when none is supported.
C9_FirstSupportedType == \A r \in SessionIds : FirstPreferred(sessions[r].mime, supported)

C9_Witness ==
    /\ sessions # <<>>
    /\ sessions[1].mime = "audio/mpeg"
    /\ "audio/webm" \in supported
    /\ "audio/ogg" \in supported

AllBlank(s) == \A i \in 1..Len(s) : s[i] = Blank
\* A name a dialog may hand to its callback: something that is not blank,
\* then the extension.
CallbackName(n) == EndsWithExt(n) /\ ~AllBlank(SubSeq(n, 1, Len(n) - 1))

\* The step in which a dialog's callback was invoked.
CallbackInvoked ==
    \/ last.op = "stopCb" /\ last.out \in {"resolved", "stopping", "pending", "rejected"}
    \/ last.op = "rename" /\ last.out \in {"checking", "same"}

\* C10: the recording and the rename dialog call back only with a name whose
\* typed part is not blank and that ends in .mp3; a blank submission calls
\* nothing, stops nothing and leaves the dialog as it was.
C10_DialogsValidateNames ==
    /\ [](CallbackInvoked => CallbackName(last.name))
    /\ [][(last'.out = "ignored" /\ last' # last)
            => /\ AllBlank(last'.name)
               /\ UNCHANGED <<recVars, tasks, vaultVars, dialogVars, vizVars, now>>]_vars

C10_Witness ==
    /\ last.op = "rename"
    /\ last.out = "ignored"
    /\ last.name = <<Blank>>
    /\ renameModal.open
    /\ \E i \in FileIds : files[i].name = <<"a">>

\* The step in which the storage layer failed a trash or a rename.
StorageFailed == last.op \in {"delete", "rename"} /\ last.out \in {"unhandled", "failed"}

\* C11: when the storage layer fails a trash or a rename started from the
\* playback dialog, the failure is caught and a notice reports it; it never
\* escapes as an unhandled rejection.
C11_StorageFailuresReported ==
    StorageFailed => (last.out = "failed" /\ last.notice # "none")

\* The recording dialog has been closed (dismissed, or closed by a stop
\* handler after its save) and nothing has opened it since.
VisualizingOver == ~recOpen

\* C12: once the recording dialog is closed, no visualisation frame is left
\* scheduled, however many times setupAnalyser was called while it was open.
C12_NoFrameAfterClose == VisualizingOver => frames = {}

\* The stop event of recorder r resolves, in this step, the promise of a
\* stopRecording call that was made while r's session was active.
ActiveStopResolves(r) ==
    /\ r \in SessionIds
    /\ sessions[r].stopping
    /\ ~sessions'[r].stopping
    /\ Awaited(sessions[r].onstop)
    /\ sessions[r].onstop.active

\* C13: the promise of a stopRecording call on an active session resolves
\* with the session's chunks, in order, tagged audio/mp3; at that moment the
\* chunk buffer is empty and the tracks of the session's stream are stopped.
C13_ActiveStopResolvesWithChunks ==
    [][\A r \in 1..MaxSessions :
          ActiveStopResolves(r)
              => /\ audioChunks' = <<>>
                 /\ ~sessions'[r].live
                 /\ \E task \in BagToSet(tasks') :
                        /\ task.kind = sessions[r].onstop.kind
                        /\ task.pc = "saveExists"
                        /\ task.blob = Mp3Blob(<<r>>)]_vars

\* C14: whenever no ribbon handler and no stop callback is in flight, the
\* flag isRecording is true exactly when the recorder has an active session.
C14_FlagMatchesSession == InFlight = 0 => (isRecording <=> ActiveSessions # {})

====
